---- MODULE Spec2Model ----
(***************************************************************************)
(* Model of the two browser scripts of the repository:                     *)
(*   static/sw.js     the service worker (install / activate / fetch)      *)
(*   static/swipe.js  the horizontal-swipe tab navigator                   *)
(* The service worker runs on the platform's Cache and ServiceWorker APIs; *)
(* the platform steps the handlers rely on (Cache.addAll, CacheStorage.    *)
(* match, the install/activate life cycle, clients.claim) are modelled as  *)
(* the standards define them.                                              *)
(***************************************************************************)
EXTENDS Integers, Sequences, FiniteSets, TLC

VARIABLES
    swState,          \* life-cycle state of the worker running sw.js
    skipWaitingFlag,  \* set by self.skipWaiting()
    cacheNames,       \* CacheStorage: names of the caches, in creation order
    cacheEntries,     \* CacheStorage: cache name -> set of stored request URLs
    addAllState,      \* progress of caches.open(..).then(cache.addAll(..))
    fetched,          \* responses addAll has fetched so far (not yet stored)
    claimState,       \* progress of self.clients.claim()
    clients,          \* page instance -> its controller
    claimed,          \* the page instances clients.claim() has taken over
    reqs,             \* intercepted request -> progress of its fetch handler
    startX, startY, moved, ignore,   \* swipe.js gesture state
    tabs,             \* swipe.js tab list
    location,         \* window.location.href of the page running swipe.js
    fingers,          \* touch points currently on the screen
    startTarget,      \* e.target of the most recent touchstart
    sawMove,          \* a touchmove was dispatched since that touchstart
    lastEnd           \* what the touchend listener saw and did, if it ran last

swVars == <<swState, skipWaitingFlag, cacheNames, cacheEntries, addAllState,
            fetched, claimState, clients, claimed, reqs>>
gestureVars == <<startX, startY, moved, ignore, tabs, location, fingers,
                 startTarget, sawMove, lastEnd>>
vars == <<swVars, gestureVars>>

(***************************************************************************)
(* Bounds of the model.                                                    *)
(***************************************************************************)
MaxReq == 2       \* intercepted requests that can be in flight together
MaxClients == 2   \* page instances
MaxFingers == 2   \* touch points on the screen at once

ReqIds == 1..MaxReq
ClientIds == 1..MaxClients

(***************************************************************************)
(* sw.js: constants.                                                       *)
(***************************************************************************)
CACHE_NAME == "undo-cache-v1"
OFFLINE_URL == "/static/offline.html"

PRECACHE_Extra ==
    <<"/", "/static/style.css", OFFLINE_URL, "/static/icons/icon-192.png",
      "/static/icons/icon-512.png", "/static/manifest.webmanifest",
      "/static/swipe.js">>

PRECACHE ==
    <<"/", "/static/style.css", OFFLINE_URL, "/static/icons/icon-192.png",
      "/static/icons/icon-512.png", "/static/manifest.webmanifest">>

Range(s) == {s[i] : i \in 1..Len(s)}

\* The name a previous deployment of the worker gave its cache store; the
\* deployment bumps the version in CACHE_NAME to invalidate it.
PREV_CACHE_NAME == "undo-cache-v0"
PrevEntries == {"/", OFFLINE_URL, "/static/legacy.css"}
AllCacheNames == {PREV_CACHE_NAME, CACHE_NAME}

\* The requests the pages make: page loads (mode navigate) and subresource
\* requests (any other mode), each over a few URLs.
Modes == {"navigate", "no-cors"}
ReqUrls(mode) ==
    IF mode = "navigate" THEN {"/", "/reflections"}
    ELSE {"/static/style.css", "/static/legacy.css", "/api/entries"}

NoResp == [kind |-> "none", cache |-> "-", url |-> "-"]
NetResp(u) == [kind |-> "network", cache |-> "-", url |-> u]
CacheResp(n, u) == [kind |-> "cache", cache |-> n, url |-> u]
Undefined == [kind |-> "undefined", cache |-> "-", url |-> "-"]
Rejected == [kind |-> "rejected", cache |-> "-", url |-> "-"]

IdleReq == [pc |-> "idle", mode |-> "-", url |-> "-", netCalls |-> 0,
            net |-> "none", resp |-> NoResp]

\* caches.match(x): the entry of the first cache, in creation order, that
\* holds x; undefined when no cache holds it.
CachesMatch(u) ==
    LET holds == {i \in 1..Len(cacheNames) : u \in cacheEntries[cacheNames[i]]}
    IN  IF holds = {} THEN Undefined
        ELSE LET first == CHOOSE i \in holds : \A j \in holds : i <= j
             IN  CacheResp(cacheNames[first], u)

(***************************************************************************)
(* sw.js: install.                                                         *)
(***************************************************************************)
\* A variant of the install listener that never calls self.skipWaiting().
InstallEvent_NoSkip ==
    /\ swState = "parsed"
    /\ swState' = "installing"
    /\ addAllState' = "opening"
    /\ UNCHANGED <<skipWaitingFlag, cacheNames, cacheEntries, fetched,
                   claimState, clients, claimed, reqs, gestureVars>>

\* The install listener: event.waitUntil(<population>) registers the
\* population promise, then self.skipWaiting() runs synchronously.
InstallEvent ==
    /\ swState = "parsed"
    /\ swState' = "installing"
    /\ addAllState' = "opening"
    /\ skipWaitingFlag' = TRUE
    /\ UNCHANGED <<cacheNames, cacheEntries, fetched, claimState, clients, claimed, reqs, gestureVars>>

\* caches.open(CACHE_NAME) resolves: the cache is created if absent.
CacheOpen ==
    /\ addAllState = "opening"
    /\ cacheNames' = IF CACHE_NAME \in Range(cacheNames) THEN cacheNames
                     ELSE Append(cacheNames, CACHE_NAME)
    /\ addAllState' = "fetching"
    /\ UNCHANGED <<swState, skipWaitingFlag, cacheEntries, fetched, claimState,
                   clients, claimed, reqs, gestureVars>>

\* A variant of the population that stores each response as it arrives
\* (cache.add per URL instead of one cache.addAll).
AddAllFetchOk_PutEach(u) ==
    /\ addAllState = "fetching"
    /\ u \in Range(PRECACHE) \ fetched
    /\ fetched' = fetched \cup {u}
    /\ cacheEntries' = [cacheEntries EXCEPT ![CACHE_NAME] = @ \cup {u}]
    /\ UNCHANGED <<swState, skipWaitingFlag, cacheNames, addAllState, claimState,
                   clients, claimed, reqs, gestureVars>>

\* cache.addAll(PRECACHE): one of the manifest fetches succeeds.  Nothing is
\* stored until every response is in.
AddAllFetchOk(u) ==
    /\ addAllState = "fetching"
    /\ u \in Range(PRECACHE) \ fetched
    /\ fetched' = fetched \cup {u}
    /\ UNCHANGED <<swState, skipWaitingFlag, cacheNames, cacheEntries,
                   addAllState, claimState, clients, claimed, reqs, gestureVars>>

\* A variant of the population whose failure is swallowed (a catch on the
\* addAll promise): the install succeeds with nothing stored.
AddAllFetchFail_Swallow(u) ==
    /\ addAllState = "fetching"
    /\ u \in Range(PRECACHE) \ fetched
    /\ addAllState' = "failed"
    /\ swState' = "installed"
    /\ UNCHANGED <<skipWaitingFlag, cacheNames, cacheEntries, fetched,
                   claimState, clients, claimed, reqs, gestureVars>>

\* cache.addAll(PRECACHE): one of the manifest fetches fails.  addAll
\* rejects, the waitUntil promise rejects and the install fails: the worker
\* becomes redundant.
AddAllFetchFail(u) ==
    /\ addAllState = "fetching"
    /\ u \in Range(PRECACHE) \ fetched
    /\ addAllState' = "failed"
    /\ swState' = "redundant"
    /\ UNCHANGED <<skipWaitingFlag, cacheNames, cacheEntries, fetched,
                   claimState, clients, claimed, reqs, gestureVars>>

\* cache.addAll(PRECACHE): every response is in; they are stored in one
\* batch, the waitUntil promise fulfils and the worker is installed.
AddAllCommit ==
    /\ addAllState = "fetching"
    /\ fetched = Range(PRECACHE)
    /\ cacheEntries' = [cacheEntries EXCEPT ![CACHE_NAME] = @ \cup fetched]
    /\ addAllState' = "done"
    /\ swState' = "installed"
    /\ UNCHANGED <<skipWaitingFlag, cacheNames, fetched, claimState, clients, claimed, reqs, gestureVars>>

(***************************************************************************)
(* sw.js: activate.                                                        *)
(***************************************************************************)
\* A variant of the activate listener that does not claim the clients.
ActivateEvent_NoClaim ==
    /\ swState = "installed"
    /\ skipWaitingFlag \/ \A c \in ClientIds : clients[c] # "old"
    /\ swState' = "activating"
    /\ clients' = [c \in ClientIds |->
                     IF clients[c] = "old" THEN "new" ELSE clients[c]]
    /\ claimState' = "resolved"
    /\ UNCHANGED <<skipWaitingFlag, cacheNames, cacheEntries, addAllState,
                   fetched, claimed, reqs, gestureVars>>

\* The installed worker is activated once the skip-waiting flag is set or no
\* page is controlled by the previous worker; pages the previous worker
\* controlled pass to the new one.  The activate listener then calls
\* event.waitUntil(self.clients.claim()).
ActivateEvent ==
    /\ swState = "installed"
    /\ skipWaitingFlag \/ \A c \in ClientIds : clients[c] # "old"
    /\ swState' = "activating"
    /\ clients' = [c \in ClientIds |->
                     IF clients[c] = "old" THEN "new" ELSE clients[c]]
    /\ claimState' = "pending"
    /\ UNCHANGED <<skipWaitingFlag, cacheNames, cacheEntries, addAllState,
                   fetched, claimed, reqs, gestureVars>>

\* self.clients.claim() takes effect: every open page in scope that the
\* worker does not control yet becomes controlled by it.
ClientsClaim ==
    /\ claimState = "pending"
    /\ clients' = [c \in ClientIds |->
                     IF clients[c] = "none" THEN "new" ELSE clients[c]]
    /\ claimed' = {c \in ClientIds : clients[c] = "none"}
    /\ claimState' = "resolved"
    /\ UNCHANGED <<swState, skipWaitingFlag, cacheNames, cacheEntries,
                   addAllState, fetched, reqs, gestureVars>>

\* The waitUntil promise of the activate event has settled.
ActivateDone ==
    /\ swState = "activating"
    /\ claimState = "resolved"
    /\ swState' = "activated"
    /\ UNCHANGED <<skipWaitingFlag, cacheNames, cacheEntries, addAllState,
                   fetched, claimState, clients, claimed, reqs, gestureVars>>

\* A page instance is opened.  It is controlled by the registration's active
\* worker: the new one from activation on, before that the previous one if
\* there is one (or none, for a page loaded bypassing it).
OpenPage(c, ctl) ==
    /\ clients[c] = "closed"
    /\ swState # "redundant"
    /\ IF swState \in {"activating", "activated"} THEN ctl = "new"
       ELSE ctl = "none" \/ (ctl = "old" /\ PREV_CACHE_NAME \in Range(cacheNames))
    /\ clients' = [clients EXCEPT ![c] = ctl]
    /\ UNCHANGED <<swState, skipWaitingFlag, cacheNames, cacheEntries,
                   addAllState, fetched, claimState, claimed, reqs, gestureVars>>

ClosePage(c) ==
    /\ clients[c] # "closed"
    /\ clients' = [clients EXCEPT ![c] = "closed"]
    /\ claimed' = claimed \ {c}
    /\ UNCHANGED <<swState, skipWaitingFlag, cacheNames, cacheEntries,
                   addAllState, fetched, claimState, reqs, gestureVars>>

(***************************************************************************)
(* sw.js: fetch.                                                           *)
(***************************************************************************)
SetReq(r, rec) ==
    /\ reqs' = [reqs EXCEPT ![r] = rec]
    /\ UNCHANGED <<swState, skipWaitingFlag, cacheNames, cacheEntries,
                   addAllState, fetched, claimState, clients, claimed, gestureVars>>

\* The fetch listener, dispatched by the active worker for a request of a
\* page it controls.  A navigation calls fetch(req) at once; any other
\* request starts caches.match(req).
FetchEvent(r, mode, u) ==
    /\ swState = "activated"
    /\ reqs[r].pc = "idle"
    /\ mode = "navigate" \/ \E c \in ClientIds : clients[c] = "new"
    /\ IF mode = "navigate"
       THEN SetReq(r, [IdleReq EXCEPT !.pc = "navFetch", !.mode = mode,
                                      !.url = u, !.netCalls = 1])
       ELSE SetReq(r, [IdleReq EXCEPT !.pc = "match", !.mode = mode, !.url = u])

\* Navigation: fetch(req) fulfils; its response is the answer.
NavFetchOk(r) ==
    /\ reqs[r].pc = "navFetch"
    /\ SetReq(r, [reqs[r] EXCEPT !.pc = "done", !.net = "ok",
                                 !.resp = NetResp(reqs[r].url)])

\* A variant of the catch callback that looks the request itself up.
NavFetchFail_MatchReq(r) ==
    /\ reqs[r].pc = "navFetch"
    /\ SetReq(r, [reqs[r] EXCEPT !.pc = "done", !.net = "fail",
                                 !.resp = CachesMatch(reqs[r].url)])

\* Navigation: fetch(req) rejects; the catch callback answers with
\* caches.match(OFFLINE_URL).
NavFetchFail(r) ==
    /\ reqs[r].pc = "navFetch"
    /\ SetReq(r, [reqs[r] EXCEPT !.pc = "done", !.net = "fail",
                                 !.resp = CachesMatch(OFFLINE_URL)])

\* A variant of the cache-first callback that always goes to the network.
MatchResolve_NoCache(r) ==
    /\ reqs[r].pc = "match"
    /\ SetReq(r, [reqs[r] EXCEPT !.pc = "assetFetch", !.netCalls = @ + 1])

\* Other requests: caches.match(req) resolves with hit; the callback
\* answers hit || fetch(req).
MatchResolve(r) ==
    /\ reqs[r].pc = "match"
    /\ LET hit == CachesMatch(reqs[r].url)
       IN  IF hit # Undefined
           THEN SetReq(r, [reqs[r] EXCEPT !.pc = "done", !.resp = hit])
           ELSE SetReq(r, [reqs[r] EXCEPT !.pc = "assetFetch",
                                          !.netCalls = @ + 1])

\* A variant that writes the fetched response back into the cache.
AssetFetchOk_WriteBack(r) ==
    /\ reqs[r].pc = "assetFetch"
    /\ reqs' = [reqs EXCEPT ![r] = [reqs[r] EXCEPT !.pc = "done", !.net = "ok",
                                       !.resp = NetResp(reqs[r].url)]]
    /\ cacheEntries' = [cacheEntries EXCEPT ![CACHE_NAME] = @ \cup {reqs[r].url}]
    /\ UNCHANGED <<swState, skipWaitingFlag, cacheNames, addAllState, fetched,
                   claimState, clients, claimed, gestureVars>>

\* A variant in which the request is kept in a variable the handlers share,
\* so the answer is the response to the most recently dispatched request.
AssetFetchOk_Shared(r) ==
    /\ reqs[r].pc = "assetFetch"
    /\ LET busy == {q \in ReqIds : reqs[q].pc # "idle"}
           last == CHOOSE q \in busy : \A o \in busy : o <= q
       IN  SetReq(r, [reqs[r] EXCEPT !.pc = "done", !.net = "ok",
                                     !.resp = NetResp(reqs[last].url)])

\* Other requests, cache miss: fetch(req) fulfils; its response is the answer.
AssetFetchOk(r) ==
    /\ reqs[r].pc = "assetFetch"
    /\ SetReq(r, [reqs[r] EXCEPT !.pc = "done", !.net = "ok",
                                 !.resp = NetResp(reqs[r].url)])

\* A variant that substitutes the offline page for a failed asset fetch.
AssetFetchFail_Offline(r) ==
    /\ reqs[r].pc = "assetFetch"
    /\ SetReq(r, [reqs[r] EXCEPT !.pc = "done", !.net = "fail",
                                 !.resp = CachesMatch(OFFLINE_URL)])

\* Other requests, cache miss: fetch(req) rejects; nothing catches it, so
\* respondWith is given a rejected promise.
AssetFetchFail(r) ==
    /\ reqs[r].pc = "assetFetch"
    /\ SetReq(r, [reqs[r] EXCEPT !.pc = "done", !.net = "fail",
                                 !.resp = Rejected])

\* The answer has been handed to the page; the slot is free again.
Deliver(r) ==
    /\ reqs[r].pc = "done"
    /\ SetReq(r, IdleReq)

(***************************************************************************)
(* swipe.js.                                                               *)
(***************************************************************************)
SWIPE_THRESHOLD == 60

NULL == "null"

\* A URL string: its path, and whatever follows the path (query, fragment).
\* BadHref is a string the URL parser rejects.
Href(p, q) == [path |-> p, rest |-> q]
BadHref == [path |-> NULL, rest |-> "http://["]
NoHref == [path |-> NULL, rest |-> ""]

\* Touch coordinates (clientX, clientY) the model draws from.
XS == {0, 1, SWIPE_THRESHOLD, SWIPE_THRESHOLD + 1}
YS == {0, 35}

\* The elements a touch can start on: child -> parent, up to the root.
Elements == {"document", "main", "input", "textarea", "select", "button", "a",
             "editable", "span_in_a", "plain_editable"}
Parent(el) ==
    CASE el = "span_in_a" -> "a"
      [] el = "body" -> "none"
      [] OTHER -> "body"
\* input, textarea, select, button, a, [contenteditable="true"]
Matches(el) == el \in {"input", "textarea", "select", "button", "a", "editable"}

RECURSIVE Closest(_)
Closest(el) ==
    IF el = "none" THEN NULL
    ELSE IF Matches(el) THEN el ELSE Closest(Parent(el))

\* el && el.closest && el.closest(selector); the document has no closest.
isFormEl(el) == el # "document" /\ Closest(el) # NULL

Abs(n) == IF n < 0 THEN -n ELSE n

\* A variant of angleOK that accepts up to 45 degrees.
angleOK_Wide(dx, dy) ==
    LET adx == Abs(dx)
        ady == Abs(dy)
    IN  IF adx = 0 THEN FALSE ELSE ady <= adx

\* atan2(ady, adx) * 180 / PI <= MAX_ANGLE_DEG with MAX_ANGLE_DEG = 30, that
\* is ady / adx <= tan 30 = 1 / sqrt 3, that is 3 * ady^2 <= adx^2 (no
\* integers make the two sides equal).
angleOK(dx, dy) ==
    LET adx == Abs(dx)
        ady == Abs(dy)
    IN  IF adx = 0 THEN FALSE ELSE 3 * ady * ady <= adx * adx

\* The anchors of nav.undo-nav a page can carry, as their href values.
NavLinkLists ==
    { <<>>,
      <<Href("/", "")>>,
      <<Href("/", ""), Href("/reflections", ""), Href("/profile", "")>>,
      <<Href("/", ""), Href("/reflections", ""), Href("/", "#top"),
        Href("/profile", "")>>,
      <<Href("/", ""), BadHref, Href("/profile", "")>> }

\* tabs = navLinks.map(a => a.href), or the three fallback paths.
BuildTabs(navLinks) ==
    IF Len(navLinks) = 0
    THEN <<Href("/", ""), Href("/reflections", ""), Href("/profile", "")>>
    ELSE navLinks

Locations ==
    {Href(p, "") : p \in {"/", "/reflections", "/profile", "/settings"}}
        \cup {Href("/reflections", "?d=1")}

\* new URL(href, origin).pathname, or null when the parser throws.
normalizePath(href) == IF href = BadHref THEN NULL ELSE href.path

\* A variant of tabIndexOf that answers 0 for a path it does not find.
tabIndexOf_Zero(href) ==
    LET path == normalizePath(href)
        hits == {k \in 1..Len(tabs) : normalizePath(tabs[k]) = path}
    IN  IF path = NULL \/ hits = {} THEN 0
        ELSE (CHOOSE k \in hits : \A j \in hits : k <= j) - 1

\* tabs.findIndex(t => normalizePath(t) === path), 0-based, -1 if none.
tabIndexOf(href) ==
    LET path == normalizePath(href)
        hits == {k \in 1..Len(tabs) : normalizePath(tabs[k]) = path}
    IN  IF path = NULL \/ hits = {} THEN -1
        ELSE (CHOOSE k \in hits : \A j \in hits : k <= j) - 1

\* A variant of nextTab that forgets to step.
nextTab_NoStep ==
    LET i == tabIndexOf(location)
    IN  IF i >= 0 THEN tabs[i + 1] ELSE NoHref

\* The URL nextTab hands to goto (NoHref: goto is not called).
nextTab ==
    LET i == tabIndexOf(location)
    IN  IF i >= 0 THEN tabs[((i + 1) % Len(tabs)) + 1] ELSE NoHref

\* A variant of prevTab that indexes tabs[i - 1] without wrapping: at the
\* first tab the entry is undefined and goto does nothing.
prevTab_NoWrap ==
    LET i == tabIndexOf(location)
    IN  IF i >= 1 THEN tabs[i] ELSE NoHref

\* The URL prevTab hands to goto (NoHref: goto is not called).
prevTab ==
    LET i == tabIndexOf(location)
    IN  IF i >= 0 THEN tabs[((i - 1 + Len(tabs)) % Len(tabs)) + 1] ELSE NoHref

NoEnd == [seen |-> FALSE, ignore |-> FALSE, moved |-> FALSE, sawMove |-> FALSE,
          afterEnd |-> FALSE, dx |-> 0, dy |-> 0,
          from |-> NoHref, assign |-> NoHref]

\* The script runs when its page has loaded: gesture state and tab list.
ScriptStart(href, navLinks) ==
    /\ location' = href
    /\ startX' = 0 /\ startY' = 0 /\ moved' = FALSE /\ ignore' = FALSE
    /\ tabs' = BuildTabs(navLinks)
    /\ fingers' = 0
    /\ startTarget' = "none"
    /\ sawMove' = FALSE

\* The user opens a page of the site by other means than a swipe.
PageLoad(href, navLinks) ==
    /\ ScriptStart(href, navLinks)
    /\ lastEnd' = NoEnd
    /\ UNCHANGED swVars

\* A variant of the touchstart listener that does not reset moved.
touchstart_KeepMoved(x, y, el) ==
    /\ fingers < MaxFingers
    /\ fingers' = fingers + 1
    /\ startX' = x /\ startY' = y
    /\ ignore' = isFormEl(el)
    /\ startTarget' = el
    /\ sawMove' = FALSE
    /\ lastEnd' = NoEnd
    /\ UNCHANGED <<moved, tabs, location, swVars>>

\* The touchstart listener.
touchstart(x, y, el) ==
    /\ fingers < MaxFingers
    /\ fingers' = fingers + 1
    /\ startX' = x /\ startY' = y
    /\ moved' = FALSE
    /\ ignore' = isFormEl(el)
    /\ startTarget' = el
    /\ sawMove' = FALSE
    /\ lastEnd' = NoEnd
    /\ UNCHANGED <<tabs, location, swVars>>

\* The touchmove listener.
touchmove ==
    /\ fingers > 0
    /\ moved' = TRUE
    /\ sawMove' = TRUE
    /\ lastEnd' = NoEnd
    /\ UNCHANGED <<startX, startY, ignore, tabs, location, fingers, startTarget,
                   swVars>>

\* A variant of the touchend decision without the distance threshold.
EndTarget_NoThreshold(x, y) ==
    LET dx == x - startX
        dy == y - startY
    IN  IF ignore \/ ~moved THEN NoHref
        ELSE IF ~angleOK(dx, dy) THEN NoHref
        ELSE IF dx < 0 THEN nextTab ELSE prevTab

\* The URL the touchend listener hands to location.assign (NoHref: none).
EndTarget(x, y) ==
    LET dx == x - startX
        dy == y - startY
    IN  IF ignore \/ ~moved THEN NoHref
        ELSE IF Abs(dx) < SWIPE_THRESHOLD THEN NoHref
        ELSE IF ~angleOK(dx, dy) THEN NoHref
        ELSE IF dx < 0 THEN nextTab ELSE prevTab

\* The touchend listener.  window.location.assign(url) throws on a string
\* the URL parser rejects; otherwise the page at url loads and the script
\* starts afresh there (the site's pages carry the same navigation region).
touchend(x, y) ==
    /\ fingers > 0
    /\ LET url == EndTarget(x, y)
       IN  /\ lastEnd' = [seen |-> TRUE, ignore |-> ignore, moved |-> moved,
                          sawMove |-> sawMove, afterEnd |-> lastEnd.seen,
                          dx |-> x - startX, dy |-> y - startY,
                          from |-> location, assign |-> url]
           /\ IF url # NoHref /\ url # BadHref
              THEN /\ location' = url
                   /\ startX' = 0 /\ startY' = 0
                   /\ moved' = FALSE /\ ignore' = FALSE
                   /\ fingers' = 0
                   /\ sawMove' = FALSE
                   /\ UNCHANGED <<tabs, startTarget>>
              ELSE /\ fingers' = fingers - 1
                   /\ UNCHANGED <<startX, startY, moved, ignore, tabs, location,
                                  startTarget, sawMove>>
    /\ UNCHANGED swVars

(***************************************************************************)
(* Specifications.                                                         *)
(***************************************************************************)
SWInit ==
    /\ swState = "parsed"
    /\ skipWaitingFlag = FALSE
    /\ \E prev \in BOOLEAN :
          /\ cacheNames = IF prev THEN <<PREV_CACHE_NAME>> ELSE <<>>
          /\ cacheEntries = [n \in AllCacheNames |->
                               IF prev /\ n = PREV_CACHE_NAME THEN PrevEntries
                               ELSE {}]
    /\ addAllState = "idle"
    /\ fetched = {}
    /\ claimState = "idle"
    /\ clients = [c \in ClientIds |-> "closed"]
    /\ claimed = {}
    /\ reqs = [r \in ReqIds |-> IdleReq]

GestureInit ==
    /\ \E href \in Locations, nav \in NavLinkLists :
          /\ location = href
          /\ tabs = BuildTabs(nav)
    /\ startX = 0 /\ startY = 0 /\ moved = FALSE /\ ignore = FALSE
    /\ fingers = 0
    /\ startTarget = "none"
    /\ sawMove = FALSE
    /\ lastEnd = NoEnd

\* The service worker alone: the page script stays as loaded on "/".
Init ==
    /\ SWInit
    /\ GestureInit
    /\ location = Href("/", "")
    /\ tabs = BuildTabs(<<>>)

Next ==
    \/ InstallEvent
    \/ CacheOpen
    \/ \E u \in Range(PRECACHE) : AddAllFetchOk(u)
    \/ \E u \in Range(PRECACHE) : AddAllFetchFail(u)
    \/ AddAllCommit
    \/ ActivateEvent
    \/ ClientsClaim
    \/ ActivateDone
    \/ \E c \in ClientIds, ctl \in {"none", "old", "new"} : OpenPage(c, ctl)
    \/ \E c \in ClientIds : ClosePage(c)
    \/ \E r \in ReqIds, mode \in Modes :
          \E u \in ReqUrls(mode) : FetchEvent(r, mode, u)
    \/ \E r \in ReqIds : NavFetchOk(r)
    \/ \E r \in ReqIds : NavFetchFail(r)
    \/ \E r \in ReqIds : MatchResolve(r)
    \/ \E r \in ReqIds : AssetFetchOk(r)
    \/ \E r \in ReqIds : AssetFetchFail(r)
    \/ \E r \in ReqIds : Deliver(r)

Spec == Init /\ [][Next]_vars

\* The page script alone: the worker stays as parsed, with no earlier cache.
SwipeInit ==
    /\ SWInit
    /\ cacheNames = <<>>
    /\ GestureInit

SwipeNext ==
    \/ \E href \in Locations, nav \in NavLinkLists : PageLoad(href, nav)
    \/ \E x \in XS, y \in YS, el \in Elements : touchstart(x, y, el)
    \/ touchmove
    \/ \E x \in XS, y \in YS : touchend(x, y)

SwipeSpec == SwipeInit /\ [][SwipeNext]_vars

(***************************************************************************)
(* Properties of the service worker (checked under Spec).                  *)
(***************************************************************************)
IsNav(r) == reqs[r].mode = "navigate"
IsAsset(r) == reqs[r].mode \in Modes \ {"navigate"}
InCaches(u) == \E n \in Range(cacheNames) : u \in cacheEntries[n]

\* C1: a navigation request is answered with the network response when the
\* live fetch succeeds, and with the cached /static/offline.html when the
\* live fetch fails.
C1_NavigationNetworkFirst ==
    \A r \in ReqIds :
        (IsNav(r) /\ reqs[r].pc = "done") =>
            /\ reqs[r].net \in {"ok", "fail"}
            /\ reqs[r].net = "ok" => reqs[r].resp = NetResp(reqs[r].url)
            /\ reqs[r].net = "fail" =>
                  /\ reqs[r].resp.kind = "cache"
                  /\ reqs[r].resp.url = OFFLINE_URL

C1_Witness ==
    \E r \in ReqIds :
        /\ IsNav(r) /\ reqs[r].pc = "done" /\ reqs[r].net = "fail"
        /\ reqs[r].url = "/reflections"
        /\ reqs[r].resp = CacheResp(CACHE_NAME, OFFLINE_URL)

\* C2: a non-navigation request whose entry is cached is answered with the
\* cached entry and causes no network fetch; a network fetch is made only on
\* a cache miss, and its result is then the answer.
C2_CacheFirst ==
    \A r \in ReqIds :
        IsAsset(r) =>
            /\ InCaches(reqs[r].url) =>
                  /\ reqs[r].netCalls = 0
                  /\ reqs[r].pc = "done" =>
                        /\ reqs[r].resp.kind = "cache"
                        /\ reqs[r].resp.url = reqs[r].url
            /\ reqs[r].netCalls > 0 => ~InCaches(reqs[r].url)
            /\ (reqs[r].pc = "done" /\ ~InCaches(reqs[r].url)) =>
                  /\ reqs[r].netCalls = 1
                  /\ reqs[r].net = "ok" => reqs[r].resp = NetResp(reqs[r].url)

C2_Witness ==
    \E r \in ReqIds :
        /\ IsAsset(r) /\ reqs[r].pc = "done"
        /\ reqs[r].url = "/static/style.css"
        /\ reqs[r].resp = CacheResp(CACHE_NAME, "/static/style.css")
        /\ reqs[r].netCalls = 0

\* C3 as stated: after a population in which every fetch succeeded, the
\* cache store holds exactly the 7 entries of the manifest.
C3_SevenEntries ==
    addAllState = "done" =>
        /\ cacheEntries[CACHE_NAME] = Range(PRECACHE)
        /\ Cardinality(cacheEntries[CACHE_NAME]) = 7

\* C3, amended: after a population in which every fetch succeeded, the
\* cache store holds exactly the 6 entries of the manifest (root page,
\* stylesheet, offline page, two icons, manifest file) and nothing else.
C3_SixEntries ==
    addAllState = "done" =>
        /\ cacheEntries[CACHE_NAME] =
              {"/", "/static/style.css", "/static/offline.html",
               "/static/icons/icon-192.png", "/static/icons/icon-512.png",
               "/static/manifest.webmanifest"}
        /\ Cardinality(cacheEntries[CACHE_NAME]) = 6

C3_Witness ==
    /\ addAllState = "done"
    /\ swState = "installed"
    /\ Cardinality(cacheEntries[CACHE_NAME]) = 6

\* C4: the population is all-or-nothing: when one manifest fetch fails the
\* install fails as a whole and none of the responses fetched in the batch
\* is in the cache store; the store is never partially populated.
C4_AllOrNothing ==
    /\ addAllState = "failed" =>
          /\ swState = "redundant"
          /\ cacheEntries[CACHE_NAME] \cap fetched = {}
    /\ cacheEntries[CACHE_NAME] \in {{}, Range(PRECACHE)}

C4_Witness ==
    /\ addAllState = "failed"
    /\ Cardinality(fetched) >= 2
    /\ cacheEntries[CACHE_NAME] = {}

\* C5: no step of a fetch handler changes the cache storage, so the cache
\* store never holds more than the precache manifest.
C5_FetchLeavesCache ==
    /\ [][reqs' # reqs => UNCHANGED <<cacheNames, cacheEntries>>]_vars
    /\ [](cacheEntries[CACHE_NAME] \subseteq Range(PRECACHE))

C5_Witness ==
    \E r \in ReqIds :
        /\ IsAsset(r) /\ reqs[r].pc = "done"
        /\ reqs[r].resp = NetResp("/api/entries")
        /\ cacheEntries[CACHE_NAME] = Range(PRECACHE)

\* C6: a non-navigation request that misses the cache and whose live fetch
\* fails is answered with the rejection: one network attempt, no retry, no
\* offline page.
C6_AssetFailurePropagates ==
    \A r \in ReqIds :
        /\ reqs[r].netCalls <= 1
        /\ (IsAsset(r) /\ reqs[r].pc = "done" /\ reqs[r].net = "fail") =>
              /\ reqs[r].resp = Rejected
              /\ reqs[r].netCalls = 1

C6_Witness ==
    \E r \in ReqIds :
        /\ IsAsset(r) /\ reqs[r].pc = "done" /\ reqs[r].net = "fail"
        /\ ~InCaches(reqs[r].url)
        /\ reqs[r].resp = Rejected

\* C7 as stated: skipWaiting is signalled only after the population has
\* succeeded.
C7_SkipAfterPopulation ==
    skipWaitingFlag => addAllState = "done"

\* C7, amended: skipWaiting is signalled when the install listener runs,
\* before the population has completed and whether or not it fails; the
\* worker is activated only after the population has succeeded, never when
\* it has failed.
C7_SkipAtInstall ==
    /\ swState # "parsed" => skipWaitingFlag
    /\ swState \in {"activating", "activated"} => addAllState = "done"
    /\ addAllState = "failed" => swState = "redundant"

C7_Witness ==
    /\ skipWaitingFlag
    /\ addAllState = "failed"
    /\ swState = "redundant"

\* C8: once the worker with the new version name is active, no request is
\* answered from an entry that only a cache store of a previous version
\* name holds.
C8_OldEntriesInvalidated ==
    swState = "activated" =>
        \A r \in ReqIds :
            reqs[r].resp.kind = "cache" =>
                \/ reqs[r].resp.cache = CACHE_NAME
                \/ reqs[r].resp.url \in cacheEntries[CACHE_NAME]

\* C9: once the activate step has completed, every open page instance is
\* controlled by the new worker.
C9_ClaimsOpenPages ==
    swState = "activated" =>
        \A c \in ClientIds : clients[c] \in {"closed", "new"}

C9_Witness ==
    /\ swState = "activated"
    /\ claimed # {}
    /\ \A c \in claimed : clients[c] = "new"

\* The answer a request gets when it is the only one handled: a function
\* of its kind, its URL, the cache contents and its own network outcome.
AnswerAlone(mode, u, net) ==
    IF mode = "navigate"
    THEN IF net = "ok" THEN NetResp(u)
         ELSE CachesMatch(OFFLINE_URL)
    ELSE IF InCaches(u) THEN CachesMatch(u)
         ELSE IF net = "ok" THEN NetResp(u) ELSE Rejected

\* C19: under every interleaving of the steps of the requests in flight,
\* each request gets the answer it would get handled alone, and the steps
\* of one request leave every other request as it was.
C19_RequestsIndependent ==
    /\ [](\A r \in ReqIds :
            reqs[r].pc = "done" =>
                /\ reqs[r].resp =
                      AnswerAlone(reqs[r].mode, reqs[r].url, reqs[r].net)
                /\ reqs[r].net = "none" <=>
                      (IsAsset(r) /\ InCaches(reqs[r].url)))
    /\ [][\A r, q \in ReqIds :
            (r # q /\ reqs'[r] # reqs[r]) => reqs'[q] = reqs[q]]_vars

C19_Witness ==
    \E r, q \in ReqIds :
        /\ r # q
        /\ IsNav(r) /\ reqs[r].pc = "done" /\ reqs[r].net = "fail"
        /\ reqs[r].resp.url = OFFLINE_URL
        /\ IsAsset(q) /\ reqs[q].pc = "done" /\ reqs[q].net = "ok"
        /\ reqs[q].resp = NetResp("/api/entries")

\* C20: whenever the worker is active or handling a fetch, the population
\* of its install step has succeeded: every manifest entry, the offline
\* page among them, is in its cache store, although skipWaiting was called
\* before the population finished.
C20_ActiveImpliesPrecached ==
    (\/ swState \in {"activating", "activated"}
     \/ \E r \in ReqIds : reqs[r].pc # "idle") =>
        /\ skipWaitingFlag
        /\ addAllState = "done"
        /\ Range(PRECACHE) \subseteq cacheEntries[CACHE_NAME]
        /\ CachesMatch(OFFLINE_URL) # Undefined

C20_Witness ==
    /\ swState = "activated"
    /\ PREV_CACHE_NAME \notin Range(cacheNames)
    /\ \E r \in ReqIds :
          /\ IsNav(r) /\ reqs[r].pc = "navFetch"
          /\ CachesMatch(OFFLINE_URL) = CacheResp(CACHE_NAME, OFFLINE_URL)

(***************************************************************************)
(* Properties of the swipe navigator (checked under SwipeSpec).            *)
(***************************************************************************)
\* The start targets that are, or are inside, an input, textarea, select,
\* button, anchor or contenteditable="true" element.
StartsOnInteractive ==
    startTarget \in {"input", "textarea", "select", "button", "a", "editable",
                     "span_in_a"}

\* The touchend listener has just handled a swipe that moved, started
\* outside interactive elements, covered |dx| >= 60 and kept within 30
\* degrees of the horizontal.
QualifyingSwipe ==
    /\ lastEnd.seen
    /\ lastEnd.moved
    /\ ~StartsOnInteractive
    /\ Abs(lastEnd.dx) >= 60
    /\ 3 * lastEnd.dy * lastEnd.dy <= lastEnd.dx * lastEnd.dx

TabAt(k) == tabs[(k % Len(tabs)) + 1]

FromIsTab == \E k \in 1..Len(tabs) : tabs[k] # BadHref /\ tabs[k].path = lastEnd.from.path

\* C11: a touchend with |dx| < 60 pixels navigates nowhere, whatever dy,
\* the start target and the moved flag are.
C11_ShortSwipeNoNavigation ==
    (lastEnd.seen /\ Abs(lastEnd.dx) < 60) =>
        /\ lastEnd.assign = NoHref
        /\ location = lastEnd.from

C11_Witness ==
    /\ lastEnd.seen /\ lastEnd.moved /\ ~lastEnd.ignore
    /\ FromIsTab
    /\ Abs(lastEnd.dx) = 59 /\ lastEnd.dy = 0
    /\ lastEnd.assign = NoHref

\* C12: a touch sequence whose touchstart target is, or is inside, an
\* input, textarea, select, button, anchor or contenteditable element ends
\* without navigation, whatever the displacement.
C12_InteractiveStartNoNavigation ==
    (/\ lastEnd.seen
     /\ startTarget \in {"input", "textarea", "select", "button", "a",
                         "editable", "span_in_a", "plain_editable"}) =>
        /\ lastEnd.assign = NoHref
        /\ location = lastEnd.from

\* C13: tab resolution wraps modulo the length n of the tab list: from
\* index i, next is index (i + 1) mod n and previous is index (i - 1) mod n,
\* so the last tab's next is the first tab and the first tab's previous is
\* the last tab; the resolved index is within 0..n-1.
C13_WrapAround ==
    LET i == tabIndexOf(lastEnd.from)
        n == Len(tabs)
        swiped == /\ lastEnd.seen /\ lastEnd.moved /\ ~lastEnd.ignore
                  /\ Abs(lastEnd.dx) >= 60
                  /\ 3 * lastEnd.dy * lastEnd.dy <= lastEnd.dx * lastEnd.dx
    IN  (swiped /\ i >= 0) =>
            /\ i < n
            /\ \E k \in 0..(n - 1) : lastEnd.assign = tabs[k + 1]
            /\ (lastEnd.dx < 0 /\ i < n - 1) => lastEnd.assign = tabs[i + 2]
            /\ (lastEnd.dx < 0 /\ i = n - 1) => lastEnd.assign = tabs[1]
            /\ (lastEnd.dx > 0 /\ i > 0) => lastEnd.assign = tabs[i]
            /\ (lastEnd.dx > 0 /\ i = 0) => lastEnd.assign = tabs[n]

C13_Witness ==
    /\ lastEnd.seen
    /\ tabs = <<Href("/", ""), Href("/reflections", ""), Href("/profile", "")>>
    /\ lastEnd.from = Href("/", "")
    /\ lastEnd.dx > 0 /\ lastEnd.dy # 0
    /\ lastEnd.assign = Href("/profile", "")
    /\ location = Href("/profile", "")

\* C14: on a page whose path (query and fragment ignored) is not in the tab
\* list, no swipe navigates, in either direction.
C14_UnknownPathNoNavigation ==
    (lastEnd.seen /\ ~FromIsTab) =>
        /\ lastEnd.assign = NoHref
        /\ location = lastEnd.from

C14_Witness ==
    /\ lastEnd.seen /\ lastEnd.moved /\ ~lastEnd.ignore
    /\ lastEnd.from = Href("/settings", "")
    /\ lastEnd.dx = -60 /\ lastEnd.dy = 0
    /\ lastEnd.assign = NoHref

\* C15: a touchend that no touchmove separates from the touchstart before
\* it navigates nowhere, whatever the displacement; and one touchmove is
\* enough to set the moved flag.
C15_NoMoveNoNavigation ==
    /\ sawMove => moved
    /\ (lastEnd.seen /\ ~lastEnd.sawMove) =>
          /\ ~lastEnd.moved
          /\ lastEnd.assign = NoHref
          /\ location = lastEnd.from

C15_Witness ==
    /\ lastEnd.seen /\ ~lastEnd.sawMove /\ ~lastEnd.ignore
    /\ FromIsTab
    /\ Abs(lastEnd.dx) >= 60 /\ lastEnd.dy = 0
    /\ lastEnd.assign = NoHref

C17_SecondTouchendNoNavigation ==
    (lastEnd.seen /\ lastEnd.afterEnd) =>
        /\ lastEnd.assign = NoHref
        /\ location = lastEnd.from

\* C18: no two entries of the tab list have the same normalized path.
C18_TabsDeduplicated ==
    \A j, k \in 1..Len(tabs) :
        j # k => normalizePath(tabs[j]) # normalizePath(tabs[k])

====
